---- MODULE Spec2Model ----
(***************************************************************************)
(* A model of haystack's ElasticsearchDocumentStore                        *)
(* (src/haystack/database/elasticsearch.py) and LaserRanker                *)
(* (src/haystack/ranker/laser.py).                                         *)
(*                                                                         *)
(* Conventions.                                                            *)
(*  - Python's None is the empty tuple None; an optional value v is <<v>>. *)
(*  - Scores, cosines and distances are fixed-point numbers in tenths:     *)
(*    10 stands for 1.0, -5 for -0.5.                                      *)
(*  - Python strings that are only compared are TLA+ strings; strings     *)
(*    whose characters matter (templates, queries, JSON text) are         *)
(*    sequences of one-character strings.                                  *)
(*  - The search backend is an external collaborator: es is its content,  *)
(*    one id -> _source mapping per index.                                 *)
(***************************************************************************)
EXTENDS Integers, Sequences, FiniteSets, TLC

VARIABLES es, nextAutoId, hashSeed, result

vars == <<es, nextAutoId, hashSeed, result>>

None == <<>>

Some(v) == <<v>>

\* Longest batch handed to write_documents.
MaxBatch == 2

\* Number of ids the backend generates for documents written without one.
MaxAuto == 3

\* Longest evaluation file, in paragraphs.
MaxParagraphs == 1

\* Most questions of one paragraph.
MaxQas == 1

\* Largest top_k of a search.
MaxTopK == 2

\* Longest list of documents handed to the ranker.
MaxDocs == 3

\* Longest list of candidate ids.
MaxCandidates == 2

\* Hash seeds a Python process may start with (PYTHONHASHSEED=random).
HashSeeds == {0, 1}

Texts == {"a", "b"}

\* Identifiers a caller may give its documents.
GivenIds == {1, 2}

IndexNames == {"document", "eval_document", "feedback"}

SeqsUpTo(S, n) == UNION {[1..k -> S] : k \in 0..n}

Min(a, b) == IF a <= b THEN a ELSE b

EmptyIndex == [x \in {} |-> x]

(***************************************************************************)
(* The store's configuration: ElasticsearchDocumentStore.__init__ with its *)
(* defaults and an embedding field.                                        *)
(***************************************************************************)
index == "document"

text_field == "text"

name_field == "name"

external_source_id_field == "external_source_id"

embedding_field == Some("embedding")

excluded_meta_data == None

(***************************************************************************)
(* The backend's bulk primitive (elasticsearch.helpers.bulk): every item   *)
(* of the batch is applied on its own, in order. "create" fails on an id   *)
(* that exists in the item's index and changes nothing; "index" inserts or *)
(* replaces. An item without an id gets a fresh one from the backend.      *)
(* The positions of the failed items are collected; the helper raises      *)
(* BulkIndexError after the batch when there is one.                       *)
(***************************************************************************)
ItemKey(item, next) ==
    IF item.id = None THEN <<"auto", next>> ELSE <<"given", item.id[1]>>

RECURSIVE BulkFrom(_, _, _, _, _)
BulkFrom(store, next, actions, i, errors) ==
    IF i > Len(actions)
    THEN [es |-> store, next |-> next, errors |-> errors]
    ELSE LET item == actions[i]
             key == ItemKey(item, next)
             next2 == IF item.id = None THEN next + 1 ELSE next
             exists == key \in DOMAIN store[item.idx]
         IN IF item.op = "create" /\ exists
            THEN BulkFrom(store, next2, actions, i + 1, Append(errors, i))
            ELSE BulkFrom(
                   [store EXCEPT ![item.idx] =
                       [k \in (DOMAIN @) \cup {key} |->
                           IF k = key THEN item.src ELSE @[k]]],
                   next2, actions, i + 1, errors)

bulk(store, next, actions) == BulkFrom(store, next, actions, 1, <<>>)

(***************************************************************************)
(* write_documents (lines 87-92). The documents of the model carry their   *)
(* ids; the caller names neither an operation nor an index, so without     *)
(* lines 89-90 the bulk helper would apply its default operation, "index". *)
(***************************************************************************)
CallerDocs == [id : {Some(i) : i \in GivenIds}, src : [text : Texts]]

PrepareForWrite_DefaultOp(doc) ==
    [id |-> doc.id, src |-> doc.src, op |-> "index", idx |-> index]

PrepareForWrite(doc) ==
    [id |-> doc.id, src |-> doc.src, op |-> "create", idx |-> index]

WriteDocuments ==
    \E documents \in SeqsUpTo(CallerDocs, MaxBatch) :
        /\ LET prepared == [i \in DOMAIN documents |-> PrepareForWrite(documents[i])]
               done == bulk(es, nextAutoId, prepared)
           IN /\ es' = done.es
              /\ nextAutoId' = done.next
              /\ result' = [op |-> "write_documents",
                            documents |-> documents,
                            failed |-> done.errors,
                            error |-> IF done.errors = <<>> THEN None
                                      ELSE Some("BulkIndexError")]
        /\ UNCHANGED hashSeed

(***************************************************************************)
(* _convert_es_hit_to_document (lines 193-205). A hit is                   *)
(* [id, source, score]; the backend always sends the score, None when the  *)
(* hit was not scored (a scan). Reading a key the hit lacks is a KeyError. *)
(***************************************************************************)
Truthy(score) == score # None /\ score[1] # 0

QueryScore_NotNone(hit, score_adjustment) ==
    IF hit.score # None THEN Some(hit.score[1] + score_adjustment) ELSE None

QueryScore(hit, score_adjustment) ==
    IF Truthy(hit.score) THEN Some(hit.score[1] + score_adjustment) ELSE None

MetaData(source) ==
    [k \in (DOMAIN source \ {text_field, external_source_id_field, name_field})
             \cup {"name"} |->
        IF k = "name"
        THEN IF name_field \in DOMAIN source THEN Some(source[name_field]) ELSE None
        ELSE source[k]]

ConvertEsHitToDocument(hit, score_adjustment) ==
    IF "score" \notin DOMAIN hit \/ text_field \notin DOMAIN hit.source
    THEN [error |-> "KeyError"]
    ELSE [id |-> hit.id,
          text |-> hit.source[text_field],
          external_source_id |->
              IF external_source_id_field \in DOMAIN hit.source
              THEN Some(hit.source[external_source_id_field]) ELSE None,
          meta |-> MetaData(hit.source),
          query_score |-> QueryScore(hit, score_adjustment)]

Failed(documents) == \E i \in DOMAIN documents : "error" \in DOMAIN documents[i]

(***************************************************************************)
(* The backend's scan and count. Keys are ordered given ids first.         *)
(***************************************************************************)
KeyLess(a, b) ==
    \/ a[1] = "given" /\ b[1] = "auto"
    \/ a[1] = b[1] /\ a[2] < b[2]

SortedKeys(D) ==
    CHOOSE s \in [1..Cardinality(D) -> D] :
        \A i, j \in DOMAIN s : i < j => KeyLess(s[i], s[j])

scan(store, idx) ==
    LET keys == SortedKeys(DOMAIN store[idx])
    IN [i \in DOMAIN keys |->
           [id |-> keys[i], source |-> store[idx][keys[i]], score |-> None]]

RECURSIVE CountIn(_, _)
CountIn(store, indices) ==
    IF indices = {} THEN 0
    ELSE LET i == CHOOSE x \in indices : TRUE
         IN Cardinality(DOMAIN store[i]) + CountIn(store, indices \ {i})

\* get_document_count (lines 94-97): client.count() names no index, and the
\* backend then counts the documents of every index.
count(store) == CountIn(store, IndexNames)

GetDocumentCount ==
    /\ result' = [op |-> "get_document_count", count |-> count(es)]
    /\ UNCHANGED <<es, nextAutoId, hashSeed>>

\* get_all_documents (lines 99-103)
get_all_documents(store) ==
    LET hits == scan(store, index)
    IN [i \in DOMAIN hits |-> ConvertEsHitToDocument(hits[i], 0)]

GetAllDocuments ==
    /\ result' = [op |-> "get_all_documents",
                  documents |-> get_all_documents(es),
                  error |-> IF Failed(get_all_documents(es))
                            THEN Some("KeyError") ELSE None]
    /\ UNCHANGED <<es, nextAutoId, hashSeed>>

(***************************************************************************)
(* add_eval_data (lines 207-261). The file is a sequence of SQuAD          *)
(* documents of one paragraph each: [title, context, qas]. Python salts    *)
(* hash() of a str with the process's hash seed, so the value is a         *)
(* function of the seed and the text; str() of it is kept abstract.        *)
(***************************************************************************)
hash(seed, text) == <<"hash", seed, text>>

EvalFiles ==
    SeqsUpTo([title : {"t"},
              context : Texts,
              qas : SeqsUpTo([question : {"q"}, answers : {<<"a">>}], MaxQas)],
             MaxParagraphs)

EvalDoc(seed, paragraph, doc_index) ==
    [id |-> None, op |-> "create", idx |-> doc_index,
     src |-> [text |-> paragraph.context,
              doc_id |-> hash(seed, paragraph.context),
              name |-> paragraph.title]]

EvalQuestion(seed, paragraph, question, doc_index, label_index) ==
    [id |-> None, op |-> "create", idx |-> label_index,
     src |-> [question |-> question.question,
              answers |-> question.answers,
              doc_id |-> hash(seed, paragraph.context),
              origin |-> "gold_label",
              index_name |-> doc_index]]

RECURSIVE QuestionsFrom(_, _, _, _, _)
QuestionsFrom(seed, data, i, doc_index, label_index) ==
    IF i > Len(data) THEN <<>>
    ELSE [j \in DOMAIN data[i].qas |->
             EvalQuestion(seed, data[i], data[i].qas[j], doc_index, label_index)]
         \o QuestionsFrom(seed, data, i + 1, doc_index, label_index)

AddEvalData ==
    \E data \in EvalFiles, doc_index \in {"eval_document"}, label_index \in {"feedback"} :
        LET eval_docs_to_index ==
                [i \in DOMAIN data |-> EvalDoc(hashSeed, data[i], doc_index)]
            questions_to_index ==
                QuestionsFrom(hashSeed, data, 1, doc_index, label_index)
            first == bulk(es, nextAutoId, eval_docs_to_index)
            second == bulk(first.es, first.next, questions_to_index)
        IN /\ nextAutoId + Len(eval_docs_to_index) + Len(questions_to_index)
                 <= MaxAuto + 1
           /\ IF first.errors # <<>>
              THEN /\ es' = first.es
                   /\ nextAutoId' = first.next
                   /\ result' = [op |-> "add_eval_data", data |-> data,
                                 error |-> Some("BulkIndexError")]
              ELSE /\ es' = second.es
                   /\ nextAutoId' = second.next
                   /\ result' = [op |-> "add_eval_data", data |-> data,
                                 error |-> IF second.errors = <<>> THEN None
                                           ELSE Some("BulkIndexError")]
           /\ UNCHANGED hashSeed

\* The process ends and another starts: the backend keeps its content, the
\* new process draws its hash seed.
Restart ==
    /\ hashSeed' \in HashSeeds
    /\ result' = [op |-> "restart"]
    /\ UNCHANGED <<es, nextAutoId>>

(***************************************************************************)
(* The backend's search (client.search), as far as the store's payloads    *)
(* use it. Embeddings are unit vectors in the plane, named by their angle  *)
(* in degrees; cosines are in tenths. Hits come best score first, equal    *)
(* scores in key order, and at most `size` of them (10 when the payload    *)
(* names no size: more than an index of the model holds).                  *)
(***************************************************************************)
Angles == {0, 60, 120, 180}

cosineSimilarity(a, b) ==
    LET d == (a - b + 360) % 360
    IN CASE d = 0 -> 10
         [] d \in {60, 300} -> 5
         [] d \in {120, 240} -> -5
         [] OTHER -> -10

HitBefore(h1, h2) ==
    \/ h1.score[1] > h2.score[1]
    \/ h1.score[1] = h2.score[1] /\ KeyLess(h1.id, h2.id)

SortedHits(S) ==
    CHOOSE s \in [1..Cardinality(S) -> S] :
        \A i, j \in DOMAIN s : i < j => HitBefore(s[i], s[j])

FirstN(s, size) ==
    SubSeq(s, 1, IF size = None THEN Min(Len(s), 10) ELSE Min(Len(s), size[1]))

Range(s) == {s[i] : i \in DOMAIN s}

\* A script_score query: the base query selects, the script scores.
BaseMatches(base, key) ==
    \/ base.kind = "match_all"
    \/ /\ base.kind = "bool"
       /\ key[1] = "given"
       /\ key[2] \in Range(base.filter_ids)

ScriptScoreSearch(store, idx, body) ==
    FirstN(SortedHits({[id |-> k, source |-> store[idx][k],
                        score |-> Some(cosineSimilarity(body.query_vector,
                                                        store[idx][k].embedding) + 10)] :
                       k \in {k \in DOMAIN store[idx] : BaseMatches(body.base, k)}}),
           body.size)

(***************************************************************************)
(* query_by_embedding (lines 157-191). candidate_doc_ids is None or a list *)
(* of ids; Python takes the empty list for false.                          *)
(***************************************************************************)
EmbeddingBase(candidate_doc_ids) ==
    IF candidate_doc_ids # None /\ candidate_doc_ids[1] # <<>>
    THEN [kind |-> "bool", filter_ids |-> candidate_doc_ids[1]]
    ELSE [kind |-> "match_all"]

EmbeddingBody(query_emb, top_k, candidate_doc_ids) ==
    [size |-> Some(top_k),
     kind |-> "script_score",
     base |-> EmbeddingBase(candidate_doc_ids),
     query_vector |-> query_emb,
     excludes |-> excluded_meta_data]

QueryByEmbedding ==
    /\ result.op = "init"
    /\ \E query_emb \in Angles, top_k \in 0..MaxTopK,
          candidate_doc_ids \in {None} \cup {Some(c) : c \in SeqsUpTo(GivenIds, MaxCandidates)} :
          IF embedding_field = None
          THEN result' = [op |-> "query_by_embedding", error |-> Some("RuntimeError"),
                          request |-> None]
          ELSE LET body == EmbeddingBody(query_emb, top_k, candidate_doc_ids)
                   hits == ScriptScoreSearch(es, index, body)
                   documents == [i \in DOMAIN hits |-> ConvertEsHitToDocument(hits[i], -10)]
               IN result' = [op |-> "query_by_embedding",
                             query_emb |-> query_emb,
                             top_k |-> top_k,
                             candidate_doc_ids |-> candidate_doc_ids,
                             request |-> Some(body),
                             hits |-> hits,
                             documents |-> documents,
                             error |-> IF Failed(documents) THEN Some("KeyError") ELSE None]
    /\ UNCHANGED <<es, nextAutoId, hashSeed>>

(***************************************************************************)
(* Text. A str is a sequence of one-character strings. A template          *)
(* (string.Template) is a sequence of tokens, [ch |-> c] for a literal     *)
(* character and [ph |-> name] for the placeholder ${name}.                *)
(***************************************************************************)
Lit(chars) == [i \in DOMAIN chars |-> [ch |-> chars[i]]]

Ph(name) == <<[ph |-> name]>>

Placeholders(template) ==
    {template[i].ph : i \in {j \in DOMAIN template : "ph" \in DOMAIN template[j]}}

\* Template.substitute: every placeholder gives way to its value; a
\* placeholder the mapping lacks is a KeyError.
RECURSIVE SubstituteFrom(_, _, _)
SubstituteFrom(template, mapping, i) ==
    IF i > Len(template) THEN <<>>
    ELSE (IF "ph" \in DOMAIN template[i]
          THEN mapping[template[i].ph]
          ELSE <<template[i].ch>>)
         \o SubstituteFrom(template, mapping, i + 1)

\* Template.safe_substitute leaves a placeholder it cannot resolve in place.
RECURSIVE SafeSubstituteFrom(_, _, _)
SafeSubstituteFrom(template, mapping, i) ==
    IF i > Len(template) THEN <<>>
    ELSE (IF "ph" \in DOMAIN template[i]
          THEN IF template[i].ph \in DOMAIN mapping
               THEN mapping[template[i].ph]
               ELSE <<"$", "{">> \o <<template[i].ph>> \o <<"}">>
          ELSE <<template[i].ch>>)
         \o SafeSubstituteFrom(template, mapping, i + 1)

substitute_Safe(template, mapping) ==
    [error |-> None, text |-> SafeSubstituteFrom(template, mapping, 1)]

substitute(template, mapping) ==
    IF Placeholders(template) \subseteq DOMAIN mapping
    THEN [error |-> None, text |-> SubstituteFrom(template, mapping, 1)]
    ELSE [error |-> Some("KeyError"), text |-> <<>>]

\* json.dumps of a str and of a list of str.
RECURSIVE EscapeFrom(_, _)
EscapeFrom(chars, i) ==
    IF i > Len(chars) THEN <<>>
    ELSE (IF chars[i] \in {"\"", "\\"} THEN <<"\\", chars[i]>> ELSE <<chars[i]>>)
         \o EscapeFrom(chars, i + 1)

DumpsStr(chars) == <<"\"">> \o EscapeFrom(chars, 1) \o <<"\"">>

RECURSIVE DumpsItemsFrom(_, _)
DumpsItemsFrom(values, i) ==
    IF i > Len(values) THEN <<>>
    ELSE (IF i > 1 THEN <<",", " ">> ELSE <<>>)
         \o DumpsStr(values[i]) \o DumpsItemsFrom(values, i + 1)

json_dumps(values) == <<"[">> \o DumpsItemsFrom(values, 1) \o <<"]">>

(***************************************************************************)
(* json.loads, as a recogniser: each Parse operator takes the text and a   *)
(* position and gives the position after what it read, 0 when it cannot.   *)
(* Numbers are integers here; no text of the model holds "." or "e".       *)
(***************************************************************************)
Whitespace == {" ", "\t", "\n", "\r"}

Digits == {"0", "1", "2", "3", "4", "5", "6", "7", "8", "9"}

HexDigits == Digits \cup {"a", "b", "c", "d", "e", "f", "A", "B", "C", "D", "E", "F"}

RECURSIVE SkipWs(_, _)
SkipWs(s, i) ==
    IF i <= Len(s) /\ s[i] \in Whitespace THEN SkipWs(s, i + 1) ELSE i

StartsWith(s, i, word) ==
    /\ i + Len(word) - 1 <= Len(s)
    /\ \A k \in DOMAIN word : s[i + k - 1] = word[k]

\* i is the position after the opening quote.
RECURSIVE ParseStringBody(_, _)
ParseStringBody(s, i) ==
    IF i > Len(s) THEN 0
    ELSE IF s[i] = "\"" THEN i + 1
    ELSE IF s[i] = "\\"
         THEN IF i + 1 > Len(s) THEN 0
              ELSE IF s[i + 1] \in {"\"", "\\", "/", "b", "f", "n", "r", "t"}
                   THEN ParseStringBody(s, i + 2)
              ELSE IF /\ s[i + 1] = "u"
                      /\ i + 5 <= Len(s)
                      /\ \A k \in 2..5 : s[i + k] \in HexDigits
                   THEN ParseStringBody(s, i + 6)
              ELSE 0
    ELSE ParseStringBody(s, i + 1)

RECURSIVE SkipDigits(_, _)
SkipDigits(s, i) ==
    IF i <= Len(s) /\ s[i] \in Digits THEN SkipDigits(s, i + 1) ELSE i

ParseNumber(s, i) ==
    LET j == IF s[i] = "-" THEN i + 1 ELSE i
    IN IF j > Len(s) \/ s[j] \notin Digits THEN 0
       ELSE IF s[j] = "0" THEN j + 1
       ELSE SkipDigits(s, j)

RECURSIVE ParseValue(_, _)
RECURSIVE ParseItems(_, _)
RECURSIVE ParseMembers(_, _)

\* i is the position of the next item of an array.
ParseItems(s, i) ==
    LET e == ParseValue(s, i)
        j == SkipWs(s, e)
    IN IF e = 0 \/ j > Len(s) THEN 0
       ELSE IF s[j] = "]" THEN j + 1
       ELSE IF s[j] = "," THEN ParseItems(s, j + 1)
       ELSE 0

\* i is the position of the next member of an object.
ParseMembers(s, i) ==
    LET k == SkipWs(s, i)
        e == IF k <= Len(s) /\ s[k] = "\"" THEN ParseStringBody(s, k + 1) ELSE 0
        c == SkipWs(s, e)
        v == IF e # 0 /\ c <= Len(s) /\ s[c] = ":" THEN ParseValue(s, c + 1) ELSE 0
        j == SkipWs(s, v)
    IN IF v = 0 \/ j > Len(s) THEN 0
       ELSE IF s[j] = "}" THEN j + 1
       ELSE IF s[j] = "," THEN ParseMembers(s, j + 1)
       ELSE 0

ParseValue(s, i) ==
    LET j == SkipWs(s, i)
    IN IF j = 0 \/ j > Len(s) THEN 0
       ELSE IF s[j] = "\"" THEN ParseStringBody(s, j + 1)
       ELSE IF s[j] = "["
            THEN LET k == SkipWs(s, j + 1)
                 IN IF k <= Len(s) /\ s[k] = "]" THEN k + 1 ELSE ParseItems(s, j + 1)
       ELSE IF s[j] = "{"
            THEN LET k == SkipWs(s, j + 1)
                 IN IF k <= Len(s) /\ s[k] = "}" THEN k + 1 ELSE ParseMembers(s, j + 1)
       ELSE IF StartsWith(s, j, <<"t", "r", "u", "e">>) THEN j + 4
       ELSE IF StartsWith(s, j, <<"n", "u", "l", "l">>) THEN j + 4
       ELSE IF StartsWith(s, j, <<"f", "a", "l", "s", "e">>) THEN j + 5
       ELSE IF s[j] = "-" \/ s[j] \in Digits THEN ParseNumber(s, j)
       ELSE 0

\* The body query() gets from json.loads is kept as the text it was read from.
json_loads(text) ==
    LET e == ParseValue(text, 1)
    IN IF e # 0 /\ SkipWs(text, e) = Len(text) + 1
       THEN [error |-> None, text |-> text]
       ELSE [error |-> Some("JSONDecodeError"), text |-> <<>>]

IsObject(text) ==
    LET j == SkipWs(text, 1) IN j <= Len(text) /\ text[j] = "{"

(***************************************************************************)
(* The backend's answer to the payloads of query(). A free-text payload is *)
(* a bool query: a document matches the multi_match clause when its text   *)
(* is a term of the query, every filter is a terms clause, and the should  *)
(* clause is optional once there is a filter. The scores are the           *)
(* backend's own: 8 for a match, 0 for none. What a custom payload selects *)
(* is written in the backend's query language, which the model does not    *)
(* read: `matched` is the backend's choice.                                *)
(***************************************************************************)
TermsMatch(source, filters) ==
    \A key \in DOMAIN filters :
        key \in DOMAIN source /\ <<source[key]>> \in Range(filters[key])

MultiMatch(source, query, fields) ==
    \E f \in fields : f \in DOMAIN source /\ source[f] \in Range(query)

BoolSearch(store, idx, body) ==
    FirstN(SortedHits({[id |-> k, source |-> store[idx][k],
                        score |-> Some(IF MultiMatch(store[idx][k], body.query, body.fields)
                                       THEN 8 ELSE 0)] :
                       k \in {k \in DOMAIN store[idx] :
                                /\ body.filter # None =>
                                       TermsMatch(store[idx][k], body.filter[1])
                                /\ body.filter = None =>
                                       MultiMatch(store[idx][k], body.query, body.fields)}}),
           body.size)

CustomSearch(store, idx, body, matched) ==
    FirstN(SortedHits({[id |-> k, source |-> store[idx][k], score |-> Some(10)] :
                       k \in matched}),
           body.size)

(***************************************************************************)
(* query (lines 105-155). filters is None or a dict from a field name to a *)
(* list of str; custom_query is None or a template; index is left at None, *)
(* the store's own index. No template of the model names a "size", so a   *)
(* custom payload carries none.                                            *)
(***************************************************************************)
search_fields == {"text"}

Falsy(optional) == optional = None \/ DOMAIN optional[1] = {}

\* Lines 120-125: the question first, then every filter under its own key.
Substitutions(query, filters) ==
    [key \in {"question"} \cup (IF Falsy(filters) THEN {} ELSE DOMAIN filters[1]) |->
        IF ~Falsy(filters) /\ key \in DOMAIN filters[1]
        THEN json_dumps(filters[1][key])
        ELSE query]

CustomBody(custom_query, query, filters) ==
    LET custom_query_json == substitute(custom_query, Substitutions(query, filters))
    IN IF custom_query_json.error # None
       THEN [error |-> custom_query_json.error]
       ELSE LET body == json_loads(custom_query_json.text)
            IN IF body.error # None
               THEN [error |-> body.error]
               ELSE [error |-> None, kind |-> "custom", text |-> body.text,
                     size |-> None, excludes |-> excluded_meta_data]

FreeTextBody(query, filters, top_k) ==
    [error |-> None, kind |-> "bool", size |-> Some(top_k), query |-> query,
     fields |-> search_fields,
     filter |-> IF Falsy(filters) THEN None ELSE filters,
     excludes |-> excluded_meta_data]

X == <<"x">>

Y == <<"y">>

Queries == {<<"a">>, <<"b", "\"">>, <<"\"", "a", "\"">>}

Filters ==
    {None,
     Some(EmptyIndex),
     Some([k \in {"tag"} |-> <<X>>]),
     Some([k \in {"tag"} |-> <<X, Y>>]),
     Some([k \in {"tag"} |-> <<<<"x", "\"">>>>]),
     Some([k \in {"question"} |-> <<<<"a">>>>])}

\* {"q":"${question}"}
MatchTemplate ==
    Lit(<<"{", "\"", "q", "\"", ":", "\"">>) \o Ph("question") \o Lit(<<"\"", "}">>)

\* {"q":"${question}","t":${tag}}
TermsTemplate ==
    Lit(<<"{", "\"", "q", "\"", ":", "\"">>) \o Ph("question")
    \o Lit(<<"\"", ",", "\"", "t", "\"", ":">>) \o Ph("tag") \o Lit(<<"}">>)

\* {"q":${question}}
BareTemplate ==
    Lit(<<"{", "\"", "q", "\"", ":">>) \o Ph("question") \o Lit(<<"}">>)

\* ${tag}
ListTemplate == Ph("tag")

Templates == {MatchTemplate, TermsTemplate, BareTemplate, ListTemplate}

Query ==
    /\ result.op = "init"
    /\ \E query \in Queries, filters \in Filters, top_k \in 0..MaxTopK,
          custom_query \in {None} \cup {Some(t) : t \in Templates},
          matched \in SUBSET DOMAIN es[index] :
          LET body == IF custom_query # None /\ custom_query[1] # <<>>
                      THEN CustomBody(custom_query[1], query, filters)
                      ELSE FreeTextBody(query, filters, top_k)
              call == [op |-> "query", query |-> query, filters |-> filters,
                       top_k |-> top_k, custom_query |-> custom_query,
                       substitutions |-> Substitutions(query, filters)]
          IN IF body.error # None
             THEN result' = call @@ [request |-> None, hits |-> <<>>,
                                     documents |-> <<>>, error |-> body.error]
             ELSE IF body.kind = "custom" /\ ~IsObject(body.text)
             THEN result' = call @@ [request |-> Some(body), hits |-> <<>>,
                                     documents |-> <<>>, error |-> Some("RequestError")]
             ELSE LET hits == IF body.kind = "custom"
                              THEN CustomSearch(es, index, body, matched)
                              ELSE BoolSearch(es, index, body)
                      documents ==
                          [i \in DOMAIN hits |-> ConvertEsHitToDocument(hits[i], 0)]
                  IN result' = call @@ [request |-> Some(body), hits |-> hits,
                                        documents |-> documents,
                                        error |-> IF Failed(documents)
                                                  THEN Some("KeyError") ELSE None]
    /\ UNCHANGED <<es, nextAutoId, hashSeed>>

\* The documents an index may hold when a search arrives.
Catalogue ==
    [k \in {<<"given", 1>>, <<"given", 2>>} |->
        IF k[2] = 1 THEN [text |-> "a", embedding |-> 0, tag |-> "x"]
        ELSE [text |-> "b", embedding |-> 60, tag |-> "y", name |-> "n"]]

InitSearch ==
    /\ \E D \in SUBSET DOMAIN Catalogue :
          es = [i \in IndexNames |->
                   IF i = index THEN [k \in D |-> Catalogue[k]] ELSE EmptyIndex]
    /\ nextAutoId = 1
    /\ hashSeed \in HashSeeds
    /\ result = [op |-> "init"]

(***************************************************************************)
(* LaserRanker.rerank (laser.py, lines 21-63). The embedder gives each     *)
(* text a unit vector in the plane (its angle); the cosine distance is     *)
(* 1 - cosine, in tenths. A Document of the list is [id, text], its id its *)
(* place in the list. doc["score"] is written on the document itself; two  *)
(* documents of one text have one distance, so the score a ranked entry    *)
(* shows is the score written when it was appended.                        *)
(***************************************************************************)
RankTexts == {"a", "b", "c", "d"}

embed_sentences(text) ==
    CASE text = "a" -> 0
      [] text = "b" -> 60
      [] text = "c" -> 300
      [] OTHER -> 180

cdist(query, text) == 10 - cosineSimilarity(embed_sentences(query), embed_sentences(text))

\* The same sort, unstable: a pair goes before the pairs of its distance.
RECURSIVE InsertByDistance_Unstable(_, _)
InsertByDistance_Unstable(sortedPairs, pair) ==
    IF sortedPairs = <<>> THEN <<pair>>
    ELSE IF pair[2] <= Head(sortedPairs)[2]
         THEN <<pair>> \o sortedPairs
         ELSE <<Head(sortedPairs)>>
              \o InsertByDistance_Unstable(Tail(sortedPairs), pair)

\* sorted(closests, key=lambda x: x[1]): a stable sort, as an insertion sort
\* that puts a pair after the pairs of the same distance.
RECURSIVE InsertByDistance(_, _)
InsertByDistance(sortedPairs, pair) ==
    IF sortedPairs = <<>> THEN <<pair>>
    ELSE IF pair[2] < Head(sortedPairs)[2]
         THEN <<pair>> \o sortedPairs
         ELSE <<Head(sortedPairs)>> \o InsertByDistance(Tail(sortedPairs), pair)

RECURSIVE SortedFrom(_, _, _)
SortedFrom(pairs, i, acc) ==
    IF i > Len(pairs) THEN acc
    ELSE SortedFrom(pairs, i + 1, InsertByDistance(acc, pairs[i]))

sorted(pairs) == SortedFrom(pairs, 1, <<>>)

\* doc["score"] = score
WithScore(doc, score) == [id |-> doc.id, text |-> doc.text, score |-> score]

\* list(filter(lambda doc: doc.text == passage, documents)), scored.
RECURSIVE MatchingFrom(_, _, _, _)
MatchingFrom(documents, passage, score, j) ==
    IF j > Len(documents) THEN <<>>
    ELSE (IF documents[j].text = passage
          THEN <<WithScore(documents[j], score)>>
          ELSE <<>>)
         \o MatchingFrom(documents, passage, score, j + 1)

RECURSIVE RankedFrom(_, _, _)
RankedFrom(documents, closests, i) ==
    IF i > Len(closests) THEN <<>>
    ELSE LET passage == documents[closests[i][1]].text
             score == 10 - closests[i][2]
         IN MatchingFrom(documents, passage, score, 1)
            \o RankedFrom(documents, closests, i + 1)

\* s[:k]
Slice(s, k) ==
    IF k >= 0 THEN SubSeq(s, 1, Min(k, Len(s)))
    ELSE SubSeq(s, 1, IF Len(s) + k > 0 THEN Len(s) + k ELSE 0)

rerank(query, documents, top_k) ==
    LET distances == [i \in DOMAIN documents |-> cdist(query, documents[i].text)]
        closests == sorted([i \in DOMAIN documents |-> <<i, distances[i]>>])
        ranked_documents == RankedFrom(documents, closests, 1)
    IN [query |-> query, top_k |-> top_k,
        ranked_documents |-> Slice(ranked_documents, top_k)]

DocumentLists ==
    {[i \in DOMAIN corpus |-> [id |-> i, text |-> corpus[i]]] :
        corpus \in SeqsUpTo(RankTexts, MaxDocs)}

Rerank ==
    /\ result.op = "init"
    /\ \E query \in RankTexts, documents \in DocumentLists, top_k \in 0..MaxTopK :
          result' = [op |-> "rerank", documents |-> documents, error |-> None]
                    @@ rerank(query, documents, top_k)
    /\ UNCHANGED <<es, nextAutoId, hashSeed>>

Init ==
    /\ es = [i \in IndexNames |-> EmptyIndex]
    /\ nextAutoId = 1
    /\ hashSeed \in HashSeeds
    /\ result = [op |-> "init"]

\* The store's writes and reads of its configured index.
Next ==
    \/ WriteDocuments
    \/ GetAllDocuments

Spec == Init /\ [][Next]_vars

\* The store beside the evaluation data, over restarts of the process.
NextEval ==
    \/ WriteDocuments
    \/ AddEvalData
    \/ GetDocumentCount
    \/ GetAllDocuments
    \/ Restart

SpecEval == Init /\ [][NextEval]_vars

\* One search or read from every content of the index. The reads leave the
\* backend as it is, so one call covers every sequence of calls.
NextSearch ==
    \/ Query
    \/ QueryByEmbedding
    \/ result.op = "init" /\ GetAllDocuments

SpecSearch == InitSearch /\ [][NextSearch]_vars

\* One call of the ranker on every query, list and top_k.
NextRank == Rerank

SpecRank == Init /\ [][NextRank]_vars
(***************************************************************************)
(* The claims.                                                             *)
(***************************************************************************)
ExpectedScore(native, a) ==
    IF native = None \/ native = Some(0) THEN None ELSE Some(native[1] + a)

DecodedWith(a) ==
    /\ result.error = None
    /\ Len(result.documents) = Len(result.hits)
    /\ \A i \in DOMAIN result.hits :
          result.documents[i].query_score = ExpectedScore(result.hits[i].score, a)

DistinctTexts(documents) ==
    \A i, j \in DOMAIN documents : documents[i].text = documents[j].text => i = j

Before(query, d1, d2) ==
    \/ cdist(query, d1.text) < cdist(query, d2.text)
    \/ cdist(query, d1.text) = cdist(query, d2.text) /\ d1.id < d2.id

\* C2: on documents of pairwise distinct texts, rerank returns the first
\* min(top_k, n) documents in ascending order of cosine distance to the
\* query, ties broken by input order, each with score = 1 - distance; the
\* result for top_k is a prefix of the result for every larger top_k; a
\* document at distance 0 ranks first with score 1.
C2_RerankOrder ==
    (result.op = "rerank" /\ DistinctTexts(result.documents)) =>
        LET ranked == result.ranked_documents
            documents == result.documents
            query == result.query
        IN /\ Len(ranked) = Min(result.top_k, Len(documents))
           /\ \A i \in DOMAIN ranked :
                 /\ ranked[i].id \in DOMAIN documents
                 /\ ranked[i].text = documents[ranked[i].id].text
                 /\ ranked[i].score = 10 - cdist(query, ranked[i].text)
           /\ \A i, j \in DOMAIN ranked : i < j => Before(query, ranked[i], ranked[j])
           /\ \A d \in DOMAIN documents :
                 (\A i \in DOMAIN ranked : ranked[i].id # d) =>
                     \A i \in DOMAIN ranked : Before(query, ranked[i], documents[d])
           /\ \A m \in result.top_k..(MaxTopK + 1) :
                 ranked = SubSeq(rerank(query, documents, m).ranked_documents,
                                 1, Len(ranked))
           /\ (result.top_k >= 1 /\ \E d \in DOMAIN documents :
                                        cdist(query, documents[d].text) = 0) =>
                 /\ cdist(query, ranked[1].text) = 0
                 /\ ranked[1].score = 10

\* A list of distinct texts with a document at distance 0 and two documents
\* at one distance, the later of them cut off by top_k.
C2_Witness ==
    /\ result.op = "rerank"
    /\ DistinctTexts(result.documents)
    /\ Len(result.documents) > result.top_k
    /\ Len(result.ranked_documents) = 2
    /\ result.ranked_documents[1].score = 10
    /\ \E d \in DOMAIN result.documents :
          /\ d > result.ranked_documents[2].id
          /\ cdist(result.query, result.documents[d].text)
                 = cdist(result.query, result.ranked_documents[2].text)

\* C3: rerank fails with AmbiguousMatchError whenever two distinct input
\* documents have identical text; it returns no result in that case, so
\* none in which an input document appears more than once.
C3_AmbiguousMatchError ==
    (result.op = "rerank" /\ ~DistinctTexts(result.documents)) =>
        /\ result.error = Some("AmbiguousMatchError")
        /\ \A i, j \in DOMAIN result.ranked_documents :
              result.ranked_documents[i].id = result.ranked_documents[j].id => i = j

FilterKeys(filters) == IF filters = None THEN {} ELSE DOMAIN filters[1]

\* The substitutions the claim describes: the question is the query, every
\* other key the JSON array of its filter.
ClaimedSubstitutions(query, filters) ==
    [key \in {"question"} \cup FilterKeys(filters) |->
        IF key = "question" THEN query ELSE json_dumps(filters[1][key])]

\* C4: in custom-template mode ${question} is bound to the literal query
\* string for every filters argument, one with the key "question" too, and
\* every other placeholder ${key} to the JSON array of filters[key]: the
\* payload sent is the template with these values in place.
C4_QuestionBoundToQuery ==
    (result.op = "query" /\ result.custom_query # None /\ result.request # None) =>
        result.request[1].text =
            SubstituteFrom(result.custom_query[1],
                           ClaimedSubstitutions(result.query, result.filters), 1)

ValidJson(text) ==
    LET e == ParseValue(text, 1) IN e # 0 /\ SkipWs(text, e) = Len(text) + 1

TemplateSubstitutionErrors == {Some("KeyError"), Some("JSONDecodeError")}

\* C5: query() with a custom template fails (KeyError from the substitution,
\* JSONDecodeError from the parse: the spec's TemplateSubstitutionError) when
\* the template has a placeholder that is neither ${question} nor a key of
\* filters, or when the substituted text does not parse, as when the query
\* holds a double quote inside a JSON string; no request is sent then.
C5_TemplateErrors ==
    (result.op = "query" /\ result.custom_query # None) =>
        LET template == result.custom_query[1]
            bound == {"question"} \cup FilterKeys(result.filters)
            unresolved == ~(Placeholders(template) \subseteq bound)
            text == SubstituteFrom(template, result.substitutions, 1)
        IN /\ (unresolved \/ ~ValidJson(text)) =>
                  /\ result.error \in TemplateSubstitutionErrors
                  /\ result.request = None
           /\ (/\ template = MatchTemplate
               /\ "\"" \in Range(result.query)
               /\ "question" \notin FilterKeys(result.filters)) =>
                  /\ result.error = Some("JSONDecodeError")
                  /\ result.request = None
           /\ unresolved => result.error = Some("KeyError")

\* A query with a double quote went into the quoted placeholder of a
\* template: the text did not parse and nothing was sent.
C5_Witness ==
    /\ result.op = "query"
    /\ result.custom_query = Some(MatchTemplate)
    /\ "\"" \in Range(result.query)
    /\ result.error = Some("JSONDecodeError")
    /\ result.request = None

BatchKey(doc) == <<"given", doc.id[1]>>

\* C6: every write of write_documents is a create into the configured
\* index: a stored document is never replaced or changed, a write of an id
\* that is stored (or that an earlier document of the batch took) fails, the
\* other documents of a failing batch are stored, and no other index changes.
C6_AtomicCreate ==
    [][/\ \A idx \in IndexNames : \A k \in DOMAIN es[idx] :
             k \in DOMAIN es'[idx] /\ es'[idx][k] = es[idx][k]
       /\ result'.op = "write_documents" =>
             LET documents == result'.documents
                 taken(i) == \/ BatchKey(documents[i]) \in DOMAIN es[index]
                             \/ \E j \in 1..(i - 1) :
                                   BatchKey(documents[j]) = BatchKey(documents[i])
             IN /\ Range(result'.failed) = {i \in DOMAIN documents : taken(i)}
                /\ (result'.error # None) = (result'.failed # <<>>)
                /\ \A i \in DOMAIN documents :
                      ~taken(i) =>
                          /\ BatchKey(documents[i]) \in DOMAIN es'[index]
                          /\ es'[index][BatchKey(documents[i])] = documents[i].src
                /\ DOMAIN es'[index] =
                      DOMAIN es[index] \cup {BatchKey(documents[i]) : i \in DOMAIN documents}
                /\ \A idx \in IndexNames \ {index} : es'[idx] = es[idx]]_vars

\* A batch failed on a document whose id was stored with another text, which
\* is still the stored text, and stored the other document of the batch.
C6_Witness ==
    /\ result.op = "write_documents"
    /\ result.error = Some("BulkIndexError")
    /\ Len(result.failed) = 1
    /\ Len(result.documents) = 2
    /\ LET i == result.failed[1]
           j == 3 - i
       IN /\ es[index][BatchKey(result.documents[i])] # result.documents[i].src
          /\ BatchKey(result.documents[j]) # BatchKey(result.documents[i])
          /\ es[index][BatchKey(result.documents[j])] = result.documents[j].src

\* C7: the doc_id add_eval_data derives from a paragraph's text is the same
\* in every run of the program: the evaluation documents of one text, and
\* the labels written for it, carry one doc_id.
C7_DocIdAcrossRuns ==
    /\ \A k1, k2 \in DOMAIN es["eval_document"] :
          es["eval_document"][k1].text = es["eval_document"][k2].text =>
              es["eval_document"][k1].doc_id = es["eval_document"][k2].doc_id
    /\ \A l \in DOMAIN es["feedback"] : \A k \in DOMAIN es["eval_document"] :
          (\E seed \in HashSeeds :
               es["feedback"][l].doc_id = hash(seed, es["eval_document"][k].text)) =>
              es["feedback"][l].doc_id = es["eval_document"][k].doc_id

\* C8: with a candidate id list supplied, the empty list too,
\* query_by_embedding scores that set only (the payload's base clause being
\* match-all under an id filter): every document returned has its id in the
\* list.
C8_CandidatesRestrict ==
    (result.op = "query_by_embedding" /\ result.candidate_doc_ids # None) =>
        \A i \in DOMAIN result.documents :
            result.documents[i].id[2] \in Range(result.candidate_doc_ids[1])

\* C9: query() never returns more than top_k documents, in free-text mode
\* and in custom-template mode alike (the payload sent to the backend always
\* carrying size = top_k).
C9_AtMostTopK ==
    (result.op = "query" /\ result.error = None) =>
        Len(result.documents) <= result.top_k

\* C10: get_document_count returns the number of documents of the configured
\* index, the number get_all_documents returns, whatever other indices hold.
C10_CountOfConfiguredIndex ==
    result.op = "get_document_count" =>
        /\ result.count = Len(get_all_documents(es))
        /\ result.count = Cardinality(DOMAIN es[index])
====
